---- MODULE Spec2Model ----
(***************************************************************************)
(* The video-generation task queue of DegenPy: the task store              *)
(* (server/services/video_pool.py) and the generator with its processor    *)
(* loop, monitor loop and per-task worker threads                          *)
(* (server/services/text2video.py).                                        *)
(***************************************************************************)
EXTENDS Integers, Sequences, FiniteSets, TLC

(***************************************************************************)
(* Bounds of the model.                                                    *)
(***************************************************************************)
\* tasks ever created (ids are never reused)
MaxTasks == 3
\* priorities are 0..MaxPriority
MaxPriority == 1
\* created_at stamps are 0..MaxTime: the clock is read up to MaxTime and no further
MaxTime == 1
\* calls of start() that find the generator stopped
MaxStarts == 2
\* tasks created in the runs that start and stop the generator
MaxLifecycleTasks == 2
\* callback functions that subscribe to the broker's channels
MaxSubscribers == 2
\* messages published through the broker
MaxMessages == 2
\* videos submitted to the video API
MaxVideos == 2
\* days that pass while tasks age, and the largest argument of clean_old_tasks
MaxDays == 2
\* threads inside create_task at the same time
MaxCreators == 2
\* uids of the items the tasks process
MaxUids == 4
\* uids the warehouse tracks as recent at the same time, and their values
MaxRecent == 3

(***************************************************************************)
(* Configuration read from the environment.  MAX_CONCURRENT_TASKS has its  *)
(* default; the others are set to small values (their defaults are 3600,   *)
(* 5 and 100).                                                             *)
(***************************************************************************)
VIDEO_GEN_TIMEOUT == 1
MAX_CONCURRENT_TASKS == 2
TASK_CHECK_INTERVAL == 2
MAX_QUEUE_LENGTH == 2
\* VideoTaskMonitor.max_check_attempts (30 in the source)
max_check_attempts == 2
\* DBUIDTracker.max_size (1000 in the source)
max_size == 2

(***************************************************************************)
(* Python values.                                                          *)
(***************************************************************************)
\* None, and a value that is not None
None == <<>>
Some(x) == <<x>>
\* truth value of an Optional[str]: None and "" are false
Truthy(o) == o /= None /\ o[1] /= ""

TaskIds == 1..MaxTasks
Priorities == 0..MaxPriority
\* the timeout argument of create_task: None (its default) or the one that
\* Text2VideoGenerator.generate_video passes
Timeouts == {None, Some(VIDEO_GEN_TIMEOUT)}

\* what the external call text2v_generate_video does when it comes back:
\* it returns (success, video_path, error) or it raises
Outcomes ==
    { [raises |-> FALSE, success |-> TRUE,  video_path |-> Some("video.mp4"), error |-> None],
      [raises |-> FALSE, success |-> FALSE, video_path |-> None, error |-> Some("api error")],
      [raises |-> FALSE, success |-> FALSE, video_path |-> None, error |-> None],
      [raises |-> TRUE,  success |-> FALSE, video_path |-> None, error |-> None] }

VARIABLES
    videos,     \* VideoPool.videos: task id -> task record (dict order = id order)
    now,        \* time.time(), as far as created_at stamps need it
    running,    \* Text2VideoGenerator.running
    active,     \* Text2VideoGenerator.active_tasks, in dict (insertion) order
    procs,      \* the live _task_processor threads: position in the loop, selected task
    mons,       \* the live _task_monitor threads: seconds left of time.sleep
    workers,    \* the _video_generation_thread threads ever started
    published,  \* per task, the statuses published on the video-task channel, in order
    ret,        \* what the call made by the last step returned or raised
    caller,     \* where the thread that calls start() and stop() is
    action_events,  \* the messages published on the action-task channel, in order
    broker,     \* the MessageBroker singleton: its fields
    received,   \* per callback, the messages it was called with, in order
    sent,       \* per message published through the broker, its channel and the
                \* callbacks registered on the channel at that moment
    uuids,      \* how many ids uuid.uuid4() has returned: none is returned twice
    creators,   \* the threads inside VideoPool.create_task, past its length test
    video_tasks,    \* the MongoDB collection video_tasks of VideoTaskMonitor
    processed_uids, \* the MongoDB collection processed_uids of DBUIDTracker, in the
                    \* order of processed_at
    calls,      \* the calls of subscriber callbacks made by the in-memory broker, in
                \* order: which callback, which message, whether it raised
    recent_uids \* RecentUIDTracker: its three lists of uids

vars == <<videos, now, running, active, procs, mons, workers, published, ret, caller,
          action_events, broker, received, sent, uuids, creators, video_tasks,
          processed_uids, calls, recent_uids>>

\* the broker object and what its callers observe
busVars == <<broker, received, sent>>

\* the callbacks' calls and the warehouse's recent uids
logVars == <<calls, recent_uids>>

\* the threads inside create_task, the MongoDB collections, and the above
auxVars == <<creators, video_tasks, processed_uids, logVars>>

\* the task store, the generator and its threads
poolVars == <<videos, now, running, active, procs, mons, workers, published, caller,
              action_events, uuids>>

\* the time since an entry's start_time is counted as far as the monitor's test
\* current_time - start_time > timeout can tell, and one polling interval further
ElapsedCap(timeout) ==
    IF timeout = None THEN 0 ELSE timeout[1] + TASK_CHECK_INTERVAL + 1

NoCall == [op |-> "none", raised |-> FALSE, value |-> 0]

(***************************************************************************)
(* VideoPool                                                               *)
(***************************************************************************)
RECURSIVE KeysFrom(_, _)
KeysFrom(v, i) ==
    IF i > MaxTasks THEN <<>>
    ELSE (IF i \in DOMAIN v THEN <<i>> ELSE <<>>) \o KeysFrom(v, i + 1)

\* the keys of the dict, in its order
Keys(v) == KeysFrom(v, 1)

IsPending(v, i) == v[i].status = "pending"

get_pending_tasks(v) == SelectSeq(Keys(v), LAMBDA i : IsPending(v, i))

get_processing_tasks(v) == SelectSeq(Keys(v), LAMBDA i : v[i].status = "processing")

\* (the length test off by one)
QueueFull_OffByOne(v) == Len(get_pending_tasks(v)) > MAX_QUEUE_LENGTH

\* create_task, line 85
QueueFull(v) == Len(get_pending_tasks(v)) >= MAX_QUEUE_LENGTH

NewTask(pr, to, t) ==
    [status |-> "pending", created_at |-> t, priority |-> pr, timeout |-> to,
     video_path |-> None, error |-> None]

\* (a second error is appended to the one recorded)
update_task_status_AppendsError(v, id, status, video_path, error) ==
    IF id \notin DOMAIN v THEN v
    ELSE [v EXCEPT ![id] =
            [@ EXCEPT !.status = status,
                      !.video_path = IF Truthy(video_path) THEN video_path ELSE @,
                      !.error = IF ~Truthy(error) THEN @
                                ELSE IF @ = None THEN error
                                ELSE Some(@[1] \o "; " \o error[1])]]

\* (an unknown id gets a record)
update_task_status_Upsert(v, id, status, video_path, error) ==
    IF id \notin DOMAIN v
    THEN (id :> [status |-> status, video_path |-> video_path, error |-> error]) @@ v
    ELSE [v EXCEPT ![id] =
            [@ EXCEPT !.status = status,
                      !.video_path = IF Truthy(video_path) THEN video_path ELSE @,
                      !.error = IF Truthy(error) THEN error ELSE @]]

\* VideoPool.update_task_status: the store afterwards
update_task_status(v, id, status, video_path, error) ==
    IF id \notin DOMAIN v THEN v
    ELSE [v EXCEPT ![id] =
            [@ EXCEPT !.status = status,
                      !.video_path = IF Truthy(video_path) THEN video_path ELSE @,
                      !.error = IF Truthy(error) THEN error ELSE @]]

\* VideoPool.update_task_status: what it returns, True (1) or False (0); the
\* metadata file can be written
update_task_status_returns(v, id) == IF id \in DOMAIN v THEN 1 ELSE 0

\* VideoPool.get_task: self.videos.get(task_id)
get_task(v, id) == IF id \in DOMAIN v THEN Some(v[id]) ELSE None

\* del self.videos[task_id]
Without(v, id) == [k \in DOMAIN v \ {id} |-> v[k]]

\* (the call reports success and keeps the record)
delete_task_KeepsRecord(v, id) ==
    IF id \notin DOMAIN v THEN [videos |-> v, value |-> 0]
    ELSE [videos |-> v, value |-> 1]

\* VideoPool.delete_task: the store afterwards, and False (0) or what
\* _save_metadata returns, True (1)
delete_task(v, id) ==
    IF id \notin DOMAIN v THEN [videos |-> v, value |-> 0]
    ELSE [videos |-> Without(v, id), value |-> 1]

\* VideoPool.create_task(..., priority=pr, timeout=to) on the store v at time t:
\* the store afterwards, whether ValueError was raised, the id returned.  The id
\* uuid4 returns is the next one never returned before, so the order of the ids
\* is the dict's insertion order whatever has been deleted since.
create_task(v, pr, to, t) ==
    IF QueueFull(v)
    THEN [videos |-> v, raised |-> TRUE, value |-> 0]
    ELSE LET id == uuids + 1 IN
         [videos |-> (id :> NewTask(pr, to, t)) @@ v, raised |-> FALSE, value |-> id]

\* VideoPool.create_task(..., action_sequence=seq, priority=pr, timeout=to) with
\* the id u that uuid.uuid4() returns written out: the record carries its id and
\* its action_sequence, and keeps its place in the dict's order as its key here.
\* (create_task above is the same call for an empty action_sequence, the task's
\* id identified with its place in the dict.)
create_task_as(v, pr, to, seq, u, t) ==
    IF QueueFull(v)
    THEN [videos |-> v, raised |-> TRUE, value |-> 0]
    ELSE LET k == uuids + 1 IN
         [videos |-> (k :> ([id |-> u, action_sequence |-> seq] @@ NewTask(pr, to, t))) @@ v,
          raised |-> FALSE, value |-> u]

\* a caller creates a task with an action sequence; uuid4 returns u
CreateTaskAs(pr, to, seq, u) ==
    /\ uuids < MaxTasks
    /\ LET r == create_task_as(videos, pr, to, seq, u, now) IN
         /\ ~r.raised
         /\ videos' = r.videos
    /\ uuids' = uuids + 1
    /\ UNCHANGED <<now, running, active, procs, mons, workers, published, ret, caller,
                   action_events, busVars, auxVars>>

\* a caller creates a task (a rejected call changes nothing)
CreateTask(pr, to) ==
    /\ uuids < MaxTasks
    /\ LET r == create_task(videos, pr, to, now) IN
         /\ ~r.raised
         /\ videos' = r.videos
    /\ uuids' = uuids + 1
    /\ UNCHANGED <<now, running, active, procs, mons, workers, published, ret, caller, action_events, busVars, auxVars>>

(***************************************************************************)
(* message broker                                                          *)
(***************************************************************************)
publish_video_task(pub, id, status) == [pub EXCEPT ![id] = Append(@, status)]

VIDEO_TASK_CHANNEL == "degenpy:video_tasks"
ACTION_TASK_CHANNEL == "degenpy:action_tasks"
Channels == {VIDEO_TASK_CHANNEL, ACTION_TASK_CHANNEL}

\* the callback functions callers subscribe
Callbacks == 1..MaxSubscribers

\* MessageBroker.__init__: connected to Redis (r) or, after ConnectionError, the
\* in-memory fallback.  redis: self.redis is not None; pubsub: the channels the
\* pubsub connection is subscribed to; inbox: the messages the server has sent
\* to that connection and get_message has not returned yet; threads: how many
\* message_worker threads have been started and have not yet run, and how many
\* are in their loop
MessageBroker(r) ==
    [redis |-> r,
     subscribers |-> [c \in Channels |-> <<>>],
     pubsub |-> {},
     inbox |-> <<>>,
     running |-> FALSE,
     threads |-> [new |-> 0, loop |-> 0],
     messages |-> <<>>,
     callbacks |-> [c \in Channels |-> <<>>]]

\* (only the first callback is called)
RECURSIVE Deliver_FirstOnly(_, _, _)
Deliver_FirstOnly(rcv, cbs, k) ==
    IF cbs = <<>> THEN rcv
    ELSE [rcv EXCEPT ![Head(cbs)] = Append(@, k)]

\* for callback in ...[channel]: callback(message); an exception a callback
\* raises is logged and the loop goes on
RECURSIVE Deliver(_, _, _)
Deliver(rcv, cbs, k) ==
    IF cbs = <<>> THEN rcv
    ELSE Deliver([rcv EXCEPT ![Head(cbs)] = Append(@, k)], Tail(cbs), k)

\* the callbacks registered on a channel
Registered(b, ch) == IF b.redis THEN b.subscribers[ch] ELSE b.callbacks[ch]

Range(f) == {f[x] : x \in DOMAIN f}

\* MessageBroker.subscribe(channel, callback).  Each callback function is
\* subscribed once, to one channel, as the repository's callers subscribe theirs.
Subscribe(ch, cb) ==
    /\ \A c \in Channels : cb \notin Range(Registered(broker, c))
    /\ broker' =
         IF broker.redis
         THEN [broker EXCEPT !.subscribers[ch] = Append(@, cb),
                             !.pubsub = @ \cup {ch},
                             !.threads.new = IF broker.running THEN @ ELSE @ + 1]
         ELSE [broker EXCEPT !.callbacks[ch] = Append(@, cb)]
    /\ ret' = [op |-> "subscribe", raised |-> FALSE, value |-> 1]
    /\ UNCHANGED <<poolVars, auxVars, received, sent>>

\* MessageBroker.publish(channel, message): message number Len(sent) + 1.
\* redis.publish returns the number of connections the server sent it to.
Publish(ch) ==
    /\ Len(sent) < MaxMessages
    /\ LET k == Len(sent) + 1 IN
         /\ sent' = Append(sent, [channel |-> ch, subs |-> Range(Registered(broker, ch))])
         /\ IF broker.redis
            THEN /\ broker' = [broker EXCEPT !.inbox =
                                  IF ch \in broker.pubsub
                                  THEN Append(@, [channel |-> ch, message |-> k]) ELSE @]
                 /\ received' = received
                 /\ ret' = [op |-> "publish", raised |-> FALSE,
                            value |-> IF ch \in broker.pubsub THEN 1 ELSE 0]
            ELSE /\ broker' = [broker EXCEPT !.messages = Append(@, [channel |-> ch, message |-> k])]
                 /\ received' = Deliver(received, broker.callbacks[ch], k)
                 /\ ret' = [op |-> "publish", raised |-> FALSE, value |-> 1]
    /\ UNCHANGED <<poolVars, auxVars>>

\* message_worker, line 147
MessageWorkerBegin ==
    /\ broker.threads.new > 0
    /\ broker' = [broker EXCEPT !.threads = [new |-> @.new - 1, loop |-> @.loop + 1],
                                !.running = TRUE]
    /\ UNCHANGED <<poolVars, auxVars, received, sent, ret>>

\* message_worker, lines 150-160: get_message returns a message
MessageWorkerGet ==
    /\ broker.threads.loop > 0
    /\ broker.inbox /= <<>>
    /\ LET m == Head(broker.inbox) IN
         received' = Deliver(received, broker.subscribers[m.channel], m.message)
    /\ broker' = [broker EXCEPT !.inbox = Tail(@)]
    /\ UNCHANGED <<poolVars, auxVars, sent, ret>>

\* the names message_broker.py defines for import
BrokerExports ==
    {"broker", "publish_video_task", "publish_action_task",
     "subscribe_to_video_tasks", "subscribe_to_action_tasks"}

(***************************************************************************)
(* Text2VideoGenerator                                                     *)
(***************************************************************************)
\* start(): a call on a running generator returns at once
start ==
    /\ caller = "idle"
    /\ ~running
    /\ Len(procs) < MaxStarts
    /\ running' = TRUE
    /\ procs' = Append(procs, [pc |-> "top", task |-> 0, timeout |-> None])
    /\ mons' = Append(mons, [pc |-> "sleep", wait |-> 0])
    /\ UNCHANGED <<videos, now, active, workers, published, ret, caller, action_events, busVars, auxVars, uuids>>

\* (the key with the priority not negated: lowest priority first)
KeyLess_LowestFirst(v, a, b) ==
    \/ v[a].priority < v[b].priority
    \/ /\ v[a].priority = v[b].priority
       /\ v[a].created_at < v[b].created_at

\* (the key with created_at negated: newest first)
KeyLess_NewestFirst(v, a, b) ==
    \/ -v[a].priority < -v[b].priority
    \/ /\ -v[a].priority = -v[b].priority
       /\ -v[a].created_at < -v[b].created_at

\* sorted(..., key=lambda t: (-priority, created_at)): the order of the keys
KeyLess(v, a, b) ==
    \/ -v[a].priority < -v[b].priority
    \/ /\ -v[a].priority = -v[b].priority
       /\ v[a].created_at < v[b].created_at

RECURSIVE Insert(_, _, _)
Insert(v, x, s) ==
    IF s = <<>> THEN <<x>>
    ELSE IF KeyLess(v, x, Head(s)) THEN <<x>> \o s
    ELSE <<Head(s)>> \o Insert(v, x, Tail(s))

\* Python's sorted: stable
RECURSIVE sorted(_, _)
sorted(v, l) ==
    IF l = <<>> THEN <<>>
    ELSE Insert(v, l[Len(l)], sorted(v, SubSeq(l, 1, Len(l) - 1)))

\* self.active_tasks[id] = entry
DictSet(d, id, entry) ==
    IF \E k \in 1..Len(d) : d[k].id = id
    THEN [k \in 1..Len(d) |-> IF d[k].id = id THEN entry ELSE d[k]]
    ELSE Append(d, entry)

\* del self.active_tasks[id]
DictDel(d, id) == SelectSeq(d, LAMBDA e : e.id /= id)

\* (the capacity test off by one)
HasCapacity_OffByOne == Len(active) <= MAX_CONCURRENT_TASKS

\* _task_processor, line 142, negated
HasCapacity == Len(active) < MAX_CONCURRENT_TASKS

\* _task_processor, lines 139-154: the loop's test, the capacity test, the choice.
\* The loop holds the task's dict from here on, whatever becomes of the store's
\* entry; of its fields the timeout is read later.
ProcSelect(p) ==
    /\ procs[p].pc = "top"
    /\ running
    /\ HasCapacity
    /\ get_pending_tasks(videos) /= <<>>
    /\ procs' = [procs EXCEPT ![p] =
                    LET id == sorted(videos, get_pending_tasks(videos))[1] IN
                    [pc |-> "selected", task |-> id, timeout |-> videos[id].timeout]]
    /\ UNCHANGED <<videos, now, running, active, mons, workers, published, ret, caller, action_events, busVars, auxVars, uuids>>

\* (the selected task is dispatched without being marked)
ProcMark_NoUpdate(p) ==
    /\ procs[p].pc = "selected"
    /\ procs' = [procs EXCEPT ![p].pc = "marked"]
    /\ UNCHANGED <<videos, now, running, active, mons, workers, published, ret, caller, action_events, busVars, auxVars, uuids>>

\* _task_processor, line 157
ProcMark(p) ==
    /\ procs[p].pc = "selected"
    /\ videos' = update_task_status(videos, procs[p].task, "processing", None, None)
    /\ procs' = [procs EXCEPT ![p].pc = "marked"]
    /\ UNCHANGED <<now, running, active, mons, workers, published, ret, caller, action_events, busVars, auxVars, uuids>>

\* (the loop goes on without publishing)
ProcPublish_Silent(p) ==
    /\ procs[p].pc = "marked"
    /\ procs' = [procs EXCEPT ![p].pc = "published"]
    /\ UNCHANGED <<videos, now, running, active, mons, workers, published, ret, caller, action_events, busVars, auxVars, uuids>>

\* _task_processor, line 160
ProcPublish(p) ==
    /\ procs[p].pc = "marked"
    /\ published' = publish_video_task(published, procs[p].task, "processing")
    /\ procs' = [procs EXCEPT ![p].pc = "published"]
    /\ UNCHANGED <<videos, now, running, active, mons, workers, ret, caller, action_events, busVars, auxVars, uuids>>

\* _task_processor, lines 163-175: the thread is started and recorded
ProcDispatch(p) ==
    /\ procs[p].pc = "published"
    /\ LET id == procs[p].task IN
         /\ workers' = Append(workers, [task |-> id, st |-> "calling"])
         /\ active' = DictSet(active, id,
                        [id |-> id, elapsed |-> 0, thread |-> Len(workers) + 1,
                         timeout |-> procs[p].timeout])
    /\ procs' = [procs EXCEPT ![p] = [pc |-> "top", task |-> 0, timeout |-> None]]
    /\ UNCHANGED <<videos, now, running, mons, published, ret, caller, action_events, busVars, auxVars, uuids>>

ExceptionMessage == "Exception during video generation: error"

\* (success alone decides)
Recorded_SuccessAlone(o) ==
    IF o.raises
    THEN [status |-> "failed", video_path |-> None, error |-> Some(ExceptionMessage)]
    ELSE IF o.success
    THEN [status |-> "completed", video_path |-> o.video_path, error |-> None]
    ELSE [status |-> "failed", video_path |-> None,
          error |-> IF Truthy(o.error) THEN o.error
                    ELSE Some("Unknown error during video generation")]

\* what _video_generation_thread records for an outcome: status, video_path, error
Recorded(o) ==
    IF o.raises
    THEN [status |-> "failed", video_path |-> None, error |-> Some(ExceptionMessage)]
    ELSE IF o.success /\ Truthy(o.video_path)
    THEN [status |-> "completed", video_path |-> o.video_path, error |-> None]
    ELSE [status |-> "failed", video_path |-> None,
          error |-> IF Truthy(o.error) THEN o.error
                    ELSE Some("Unknown error during video generation")]

\* task.get("action_sequence", [])
action_sequence_of(task) ==
    IF "action_sequence" \in DOMAIN task THEN task.action_sequence ELSE <<>>

\* _handle_action_sequence(task) for the task with id `id`: the action-task
\* channel afterwards.  The import at line 315 raises ImportError unless
\* message_broker defines the name; the except clause at line 327 logs it.
handle_action_sequence(ev, id, task) ==
    IF action_sequence_of(task) = <<>> THEN ev
    ELSE IF "publish_action_task_update" \in BrokerExports
    THEN Append(ev, [task_id |-> id, status |-> "pending",
                     action_sequence |-> action_sequence_of(task),
                     video_path |-> task.video_path])
    ELSE ev

\* lines 268-272 of _video_generation_thread, which only the success branch runs
AfterPublish(ev, id, status, v) ==
    IF status = "completed" /\ id \in DOMAIN v
    THEN handle_action_sequence(ev, id, v[id])
    ELSE ev

\* _video_generation_thread, lines 264-272 and 287-293: the status is published.
\* For a completed task that store v no longer holds, get_video_task returns None,
\* _handle_action_sequence(None) raises TypeError at line 305 and again in its own
\* except clause (line 328), and the thread's except clause publishes "failed".
publish_result(pub, id, status, v) ==
    IF status = "completed" /\ id \notin DOMAIN v
    THEN publish_video_task(publish_video_task(pub, id, "completed"), id, "failed")
    ELSE publish_video_task(pub, id, status)

\* _video_generation_thread, lines 256-295: the external call comes back, the
\* result is recorded and published, and the thread ends
WorkerReturn(w, o) ==
    /\ workers[w].st = "calling"
    /\ LET id == workers[w].task
           r == Recorded(o) IN
         /\ videos' = update_task_status(videos, id, r.status, r.video_path, r.error)
         /\ published' = publish_result(published, id, r.status, videos')
         /\ action_events' = AfterPublish(action_events, id, r.status, videos')
    /\ workers' = [workers EXCEPT ![w].st = "dead"]
    /\ UNCHANGED <<now, running, active, procs, mons, ret, caller, busVars, auxVars, uuids>>

is_alive(w) == workers[w].st /= "dead"

TimeoutMessage(t) == "Task timed out after " \o ToString(t) \o " seconds"

TimedOut(e) == e.elapsed > e.timeout[1]

\* (the entry of a finished thread is removed and a "completed" event published)
RECURSIVE MonitorScan_Announces(_, _)
MonitorScan_Announces(snap, st) ==
    IF snap = <<>> THEN st
    ELSE LET e == Head(snap) IN
         IF ~is_alive(e.thread)
         THEN MonitorScan_Announces(Tail(snap),
                [st EXCEPT !.active = DictDel(@, e.id),
                           !.published = publish_video_task(@, e.id, "completed")])
         ELSE IF e.timeout = None
         THEN st
         ELSE IF TimedOut(e)
         THEN MonitorScan_Announces(Tail(snap),
                [videos |-> update_task_status(st.videos, e.id, "failed", None,
                                               Some(TimeoutMessage(e.timeout[1]))),
                 published |-> publish_video_task(st.published, e.id, "failed"),
                 active |-> DictDel(st.active, e.id)])
         ELSE MonitorScan_Announces(Tail(snap), st)

\* _task_monitor, lines 190-220: the for loop over the snapshot of active_tasks;
\* st holds the store, the active set and the channel as the loop changes them
RECURSIVE MonitorScan(_, _)
MonitorScan(snap, st) ==
    IF snap = <<>> THEN st
    ELSE LET e == Head(snap) IN
         IF ~is_alive(e.thread)
         THEN MonitorScan(Tail(snap), [st EXCEPT !.active = DictDel(@, e.id)])
         ELSE IF e.timeout = None
         THEN st   \* float > None raises TypeError: the loop is left for the except clause
         ELSE IF TimedOut(e)
         THEN MonitorScan(Tail(snap),
                [videos |-> update_task_status(st.videos, e.id, "failed", None,
                                               Some(TimeoutMessage(e.timeout[1]))),
                 published |-> publish_video_task(st.published, e.id, "failed"),
                 active |-> DictDel(st.active, e.id)])
         ELSE MonitorScan(Tail(snap), st)

\* _task_monitor: one iteration of the while loop, then time.sleep
MonitorPass(m) ==
    /\ running
    /\ mons[m].pc = "sleep"
    /\ mons[m].wait = 0
    /\ LET st == MonitorScan(active, [videos |-> videos, published |-> published,
                                      active |-> active]) IN
         /\ videos' = st.videos
         /\ published' = st.published
         /\ active' = st.active
    /\ mons' = [mons EXCEPT ![m].wait = TASK_CHECK_INTERVAL]
    /\ UNCHANGED <<now, running, procs, workers, ret, caller, action_events, busVars, auxVars, uuids>>

\* one second passes; a monitor whose sleep is over runs before the next second
Tick ==
    /\ \A m \in 1..Len(mons) : mons[m].pc = "sleep" => mons[m].wait > 0
    /\ now' = IF now < MaxTime THEN now + 1 ELSE now
    /\ active' = [k \in 1..Len(active) |->
                    [active[k] EXCEPT !.elapsed =
                        IF @ < ElapsedCap(active[k].timeout) THEN @ + 1 ELSE @]]
    /\ mons' = [m \in 1..Len(mons) |->
                  [mons[m] EXCEPT !.wait = IF mons[m].pc = "sleep" THEN @ - 1 ELSE @]]
    /\ UNCHANGED <<videos, running, procs, workers, published, ret, caller, action_events, busVars, auxVars, uuids>>

\* stop(), lines 81-86: a call on a stopped generator returns at once
StopBegin ==
    /\ caller = "idle"
    /\ running
    /\ running' = FALSE
    /\ caller' = "stopping"
    /\ UNCHANGED <<videos, now, active, procs, mons, workers, published, ret, action_events, busVars, auxVars, uuids>>

RECURSIVE FailAll(_, _)
FailAll(entries, v) ==
    IF entries = <<>> THEN v
    ELSE FailAll(Tail(entries),
                 update_task_status(v, Head(entries).id, "failed", None,
                                    Some("Service stopped")))

\* stop(), lines 88-101: each join has returned, the thread ended or the 5 seconds
\* over; the active tasks are failed and forgotten
StopEnd ==
    /\ caller = "stopping"
    /\ videos' = FailAll(active, videos)
    /\ active' = <<>>
    /\ caller' = "idle"
    /\ UNCHANGED <<now, running, procs, mons, workers, published, ret, action_events, busVars, auxVars, uuids>>

\* _task_processor, line 139: the loop ends
ProcExit(p) ==
    /\ procs[p].pc = "top"
    /\ ~running
    /\ procs' = [procs EXCEPT ![p].pc = "exited"]
    /\ UNCHANGED <<videos, now, running, active, mons, workers, published, ret, caller, action_events, busVars, auxVars, uuids>>

\* _task_monitor, line 187: the loop ends
MonExit(m) ==
    /\ mons[m].pc = "sleep"
    /\ mons[m].wait = 0
    /\ ~running
    /\ mons' = [mons EXCEPT ![m].pc = "exited"]
    /\ UNCHANGED <<videos, now, running, active, procs, workers, published, ret, caller, action_events, busVars, auxVars, uuids>>

(***************************************************************************)
(* The generator after construction, and its steps while it runs.          *)
(***************************************************************************)
InitPool ==
    /\ videos = <<>>
    /\ now = 0
    /\ running = FALSE
    /\ active = <<>>
    /\ procs = <<>>
    /\ mons = <<>>
    /\ workers = <<>>
    /\ published = [i \in TaskIds |-> <<>>]
    /\ ret = NoCall
    /\ caller = "idle"
    /\ action_events = <<>>
    /\ received = [cb \in Callbacks |-> <<>>]
    /\ sent = <<>>
    /\ uuids = 0
    /\ creators = <<>>
    /\ video_tasks = <<>>
    /\ processed_uids = <<>>
    /\ calls = <<>>
    /\ recent_uids = [followed |-> <<>>, trending |-> <<>>, other |-> <<>>]

\* the broker found its Redis server
Init == InitPool /\ broker = MessageBroker(TRUE)

\* the steps of the running generator and its callers, for tasks created with a
\* priority of P and a timeout of T, and external calls that end as one of O
PoolNext(P, T, O) ==
    \/ start
    \/ \E pr \in P, to \in T : CreateTask(pr, to)
    \/ \E p \in 1..Len(procs) : ProcSelect(p)
    \/ \E p \in 1..Len(procs) : ProcMark(p)
    \/ \E p \in 1..Len(procs) : ProcPublish(p)
    \/ \E p \in 1..Len(procs) : ProcDispatch(p)
    \/ \E w \in 1..Len(workers), o \in O : WorkerReturn(w, o)
    \/ \E m \in 1..Len(mons) : MonitorPass(m)
    \/ Tick

Next == PoolNext({0}, Timeouts, {o \in Outcomes : o.raises \/ o.success})

Spec == Init /\ [][Next]_vars

(***************************************************************************)
(* Properties of the running pool (Spec).                                  *)
(***************************************************************************)
StatusCount(status) == Cardinality({i \in DOMAIN videos : videos[i].status = status})

Terminal(status) == status \in {"completed", "failed"}

\* C1: in every reachable state the number of tasks whose status is processing is
\* at most MAX_CONCURRENT_TASKS
C1_ProcessingBounded == StatusCount("processing") <= MAX_CONCURRENT_TASKS

\* the bound is met while another task waits
C1_Witness ==
    /\ StatusCount("processing") = MAX_CONCURRENT_TASKS
    /\ StatusCount("pending") > 0

LegalTransition(from, to) ==
    \/ from = "pending" /\ to = "processing"
    \/ from = "processing" /\ to \in {"completed", "failed"}

\* C2: a task's status changes only from pending to processing and from processing
\* to completed or failed; a completed or failed status never changes again
C2_StatusMonotonic ==
    [][\A i \in DOMAIN videos :
          videos'[i].status /= videos[i].status
              => LegalTransition(videos[i].status, videos'[i].status)]_vars

\* C3: a completed task has video_path set and error null; a failed task has error
\* set and video_path null
C3_TerminalExclusive ==
    \A i \in DOMAIN videos :
        /\ videos[i].status = "completed"
              => videos[i].video_path /= None /\ videos[i].error = None
        /\ videos[i].status = "failed"
              => videos[i].error /= None /\ videos[i].video_path = None

\* the completed and failed events published for task i
TerminalEvents(i) == SelectSeq(published[i], Terminal)

\* C25: for each task at most one terminal status event (completed or failed) is
\* ever published, however the worker's completion and the monitor's timeout
\* interleave
C25_OneTerminalEvent == \A i \in TaskIds : Len(TerminalEvents(i)) <= 1

\* the ids of the entries of an active set
ActiveIds(a) == {a[k].id : k \in 1..Len(a)}

\* the entries of the active set whose unit of work has finished
Finished == {k \in 1..Len(active) : ~is_alive(active[k].thread)}

\* C26: a pass of the monitor removes every active-set entry whose unit of work
\* has finished, whatever the other entries are (their timeouts, whether their
\* calls hang)
C26_FinishedEntryRemoved ==
    [][\A m \in 1..Len(mons) :
          MonitorPass(m) => \A k \in Finished : active[k].id \notin ActiveIds(active')]_vars

\* C8: an active task with a timeout whose unit of work is still running is failed
\* and removed from the active set by the monitor no later than one polling
\* interval after its deadline start_time + timeout
C8_TimeoutWithinInterval ==
    \A k \in 1..Len(active) :
        (active[k].timeout /= None /\ is_alive(active[k].thread))
            => active[k].elapsed <= active[k].timeout[1] + TASK_CHECK_INTERVAL

(***************************************************************************)
(* Scheduling: tasks of several priorities, created with create_task's     *)
(* default timeout, whose external calls succeed.                          *)
(***************************************************************************)
NextSched ==
    PoolNext(Priorities, {None}, {o \in Outcomes : o.success})

SpecSched == Init /\ [][NextSched]_vars

\* processor p reads the pending tasks and selects one in this step
Selects(p) == procs[p].pc = "top" /\ procs'[p].pc = "selected"

\* C6: whenever the processor selects the task it claims, no task pending at that
\* moment has a strictly higher priority, whenever the tasks were created
C6_HighestPriorityFirst ==
    [][\A p \in 1..Len(procs) :
          Selects(p) =>
              \A j \in DOMAIN videos :
                  IsPending(videos, j)
                      => videos[j].priority <= videos[procs'[p].task].priority]_vars

\* a task is selected while an older task of lower priority is pending
C6_Witness ==
    \E p \in 1..Len(procs) :
        /\ procs[p].pc = "selected"
        /\ \E j \in DOMAIN videos :
              /\ IsPending(videos, j)
              /\ videos[j].priority < videos[procs[p].task].priority
              /\ videos[j].created_at < videos[procs[p].task].created_at

\* C7: among the pending tasks of the priority of the task the processor selects,
\* none has an earlier created_at
C7_FifoWithinPriority ==
    [][\A p \in 1..Len(procs) :
          Selects(p) =>
              \A j \in DOMAIN videos :
                  (IsPending(videos, j)
                     /\ videos[j].priority = videos[procs'[p].task].priority)
                      => videos[procs'[p].task].created_at <= videos[j].created_at]_vars

\* a task is selected while a newer task of the same priority is pending
C7_Witness ==
    \E p \in 1..Len(procs) :
        /\ procs[p].pc = "selected"
        /\ \E j \in DOMAIN videos :
              /\ IsPending(videos, j)
              /\ videos[j].priority = videos[procs[p].task].priority
              /\ videos[j].created_at > videos[procs[p].task].created_at

(***************************************************************************)
(* The store alone: a caller of the functions video_pool.py exports, with  *)
(* what each call returned or raised.                                      *)
(***************************************************************************)
\* create_video_task(..., priority=pr, timeout=to)
CallCreateTask(pr, to) ==
    LET r == create_task(videos, pr, to, now) IN
      /\ r.raised \/ uuids < MaxTasks
      /\ videos' = r.videos
      /\ uuids' = IF r.raised THEN uuids ELSE uuids + 1
      /\ ret' = [op |-> "create_task", raised |-> r.raised, value |-> r.value]
      /\ UNCHANGED <<now, running, active, procs, mons, workers, published, caller, action_events, busVars, auxVars>>

\* the arguments update_video_task is called with in text2video.py
UpdateArgs ==
    { [status |-> "processing", video_path |-> None, error |-> None],
      [status |-> "completed", video_path |-> Some("video.mp4"), error |-> None],
      [status |-> "failed", video_path |-> None, error |-> Some("api error")] }

\* update_video_task(id, status, video_path, error): True (1) or False (0)
CallUpdateTaskStatus(id, a) ==
    /\ videos' = update_task_status(videos, id, a.status, a.video_path, a.error)
    /\ ret' = [op |-> "update_task_status", raised |-> FALSE,
               value |-> update_task_status_returns(videos, id)]
    /\ UNCHANGED <<now, running, active, procs, mons, workers, published, caller, action_events, busVars, auxVars, uuids>>

\* get_video_task(id)
CallGetTask(id) ==
    /\ ret' = [op |-> "get_task", raised |-> FALSE, value |-> get_task(videos, id)]
    /\ UNCHANGED <<videos, now, running, active, procs, mons, workers, published, caller,
                   action_events, busVars, auxVars, uuids>>

\* days * 24 * 60 * 60 (line 243), for one day
SecondsPerDay == 24 * 60 * 60

\* (a task exactly max_age old is deleted too)
Expired_Inclusive(task, days, t) == t - task.created_at >= days * SecondsPerDay

\* clean_old_tasks, line 248
Expired(task, days, t) == t - task.created_at > days * SecondsPerDay

RECURSIVE DeleteEach(_, _)
DeleteEach(v, ids) ==
    IF ids = <<>> THEN v
    ELSE DeleteEach(delete_task(v, Head(ids)).videos, Tail(ids))

\* VideoPool.clean_old_tasks(days) at time t: the store afterwards and the count
clean_old_tasks(v, days, t) ==
    LET tasks_to_delete == SelectSeq(Keys(v), LAMBDA id : Expired(v[id], days, t)) IN
    [videos |-> DeleteEach(v, tasks_to_delete), value |-> Len(tasks_to_delete)]

CallCleanOldTasks(days) ==
    LET r == clean_old_tasks(videos, days, now) IN
      /\ videos' = r.videos
      /\ ret' = [op |-> "clean_old_tasks", raised |-> FALSE, value |-> r.value]
      /\ UNCHANGED <<now, running, active, procs, mons, workers, published, caller,
                     action_events, busVars, auxVars, uuids>>

\* d seconds pass while nothing else happens (the clock is read within MaxTime
\* seconds after midnight of MaxDays days)
Elapse(d) ==
    /\ (now + d) % SecondsPerDay <= MaxTime
    /\ (now + d) \div SecondsPerDay <= MaxDays
    /\ now' = now + d
    /\ UNCHANGED <<videos, running, active, procs, mons, workers, published, ret, caller,
                   action_events, busVars, auxVars, uuids>>

\* video_pool.delete_task(id)
CallDeleteTask(id) ==
    LET r == delete_task(videos, id) IN
      /\ videos' = r.videos
      /\ ret' = [op |-> "delete_task", raised |-> FALSE, value |-> r.value]
      /\ UNCHANGED <<now, running, active, procs, mons, workers, published, caller,
                     action_events, busVars, auxVars, uuids>>

NextStore ==
    \/ \E to \in Timeouts : CallCreateTask(0, to)
    \/ \E id \in TaskIds, a \in UpdateArgs : CallUpdateTaskStatus(id, a)

SpecStore == Init /\ [][NextStore]_vars

\* C5: a create_task call made while MAX_QUEUE_LENGTH tasks are pending raises,
\* returns no id and leaves the store as it was
C5_FullQueueRejects ==
    [][(ret'.op = "create_task" /\ StatusCount("pending") = MAX_QUEUE_LENGTH)
          => (ret'.raised /\ ret'.value = 0 /\ videos' = videos)]_vars

\* a call was rejected at a full queue
C5_Witness ==
    /\ ret.op = "create_task"
    /\ ret.raised
    /\ StatusCount("pending") = MAX_QUEUE_LENGTH

\* the error argument of the repeated update
FailedErrors == {Some("api error"), Some("x"), Some("")}

NextLookup ==
    \/ CallCreateTask(0, None)
    \/ \E id \in TaskIds, a \in UpdateArgs : CallUpdateTaskStatus(id, a)
    \/ \E id \in TaskIds : CallGetTask(id)

SpecLookup == Init /\ [][NextLookup]_vars

\* C18: update_task_status on an id that is not in the store returns False and
\* changes no record; get_task on such an id returns None; neither raises
C18_UnknownIdIsSoft ==
    [][\A id \in TaskIds \ DOMAIN videos :
          /\ (\E a \in UpdateArgs : CallUpdateTaskStatus(id, a))
                => (ret'.value = 0 /\ ~ret'.raised /\ videos' = videos)
          /\ CallGetTask(id)
                => (ret'.value = None /\ ~ret'.raised /\ videos' = videos)]_vars

\* both calls were made on ids the store does not have
C18_Witness ==
    /\ videos /= <<>>
    /\ Cardinality(DOMAIN videos) < MaxTasks
    /\ \/ ret.op = "update_task_status" /\ ret.value = 0
       \/ ret.op = "get_task" /\ ret.value = None

(***************************************************************************)
(* The generator started and stopped: tasks created with create_task's     *)
(* default timeout, whose external calls succeed.                          *)
(***************************************************************************)
NextLifecycle ==
    \/ /\ PoolNext({0}, {None}, {o \in Outcomes : o.success})
       /\ Cardinality(DOMAIN videos') <= MaxLifecycleTasks
    \/ StopBegin
    \/ StopEnd
    \/ \E p \in 1..Len(procs) : ProcExit(p)
    \/ \E m \in 1..Len(mons) : MonExit(m)

SpecLifecycle == Init /\ [][NextLifecycle]_vars

\* the units of work dispatched for task i
Dispatched(i) == {w \in 1..Len(workers) : workers[w].task = i}

\* C4: at most one unit of work is ever dispatched for a task id
C4_ClaimedOnce == \A i \in TaskIds : Cardinality(Dispatched(i)) <= 1

(***************************************************************************)
(* One run of the generator, started once and stopped: tasks submitted as  *)
(* generate_video submits them, with VIDEO_GEN_TIMEOUT, whose external     *)
(* calls succeed, report failure or raise; the monitor fails those that    *)
(* run too long and stop() fails those still active.                       *)
(***************************************************************************)
NextRun ==
    \/ /\ PoolNext({0}, {Some(VIDEO_GEN_TIMEOUT)}, {o \in Outcomes : o.raises \/ o.success})
       /\ Cardinality(DOMAIN videos') <= MaxLifecycleTasks
       /\ Len(procs') <= 1
    \/ StopBegin
    \/ StopEnd
    \/ \E p \in 1..Len(procs) : ProcExit(p)
    \/ \E m \in 1..Len(mons) : MonExit(m)

SpecRun == Init /\ [][NextRun]_vars

\* the places of the events with the given status among those published for task i
EventsAt(i, status) == {k \in 1..Len(published[i]) : published[i][k] = status}

C19_NoSkipOfProcessing ==
    [][\A i \in DOMAIN videos :
          videos[i].status = "pending"
              => videos'[i].status \in {"pending", "processing"}]_vars

\* stop() has failed one task and the monitor another
C19_Witness ==
    /\ \E i \in DOMAIN videos :
          videos[i].status = "failed" /\ videos[i].error = Some("Service stopped")
    /\ \E i \in DOMAIN videos :
          videos[i].status = "failed"
              /\ videos[i].error = Some(TimeoutMessage(VIDEO_GEN_TIMEOUT))

(***************************************************************************)
(* The running pool whose processor and monitor loops keep being scheduled *)
(* and whose clock advances.  Nothing is asked of the external call: it    *)
(* may succeed, report failure, raise, or never return.                    *)
(***************************************************************************)
ProcessorStep ==
    \E p \in 1..Len(procs) :
        ProcSelect(p) \/ ProcMark(p) \/ ProcPublish(p) \/ ProcDispatch(p)

MonitorStep == \E m \in 1..Len(mons) : MonitorPass(m)

NextFair == PoolNext({0}, Timeouts, Outcomes)

FairSpec ==
    /\ Init
    /\ [][NextFair]_vars
    /\ WF_vars(ProcessorStep)
    /\ WF_vars(MonitorStep)
    /\ WF_vars(Tick)

HasStatus(i, status) == i \in DOMAIN videos /\ videos[i].status = status

\* C9: every task that enters status processing eventually reaches completed or
\* failed, whatever the external call does and whether or not the task was created
\* with a timeout
C9_ProcessingTerminates ==
    \A i \in TaskIds :
        HasStatus(i, "processing") ~> (HasStatus(i, "completed") \/ HasStatus(i, "failed"))

\* the errors _video_generation_thread records when the external call raises or
\* reports failure
CallErrors ==
    {Recorded(o).error : o \in {x \in Outcomes : x.raises \/ ~x.success}}

CallFailed(j) == HasStatus(j, "failed") /\ videos[j].error \in CallErrors

\* C10: once the external call of a task has raised or reported failure, every
\* task still pending is eventually dispatched
C10_StillDispatches ==
    \A i \in TaskIds :
        ((\E j \in TaskIds : CallFailed(j)) /\ HasStatus(i, "pending"))
            ~> ~HasStatus(i, "pending")

\* the units of work whose external call has not come back
RunningSlots == {w \in 1..Len(workers) : workers[w].st = "calling"}

\* C12: at every moment at most MAX_CONCURRENT_TASKS dispatched units of work have
\* started and not yet finished (checked in Spec)
C12_RunningSlotsBounded == Cardinality(RunningSlots) <= MAX_CONCURRENT_TASKS

(***************************************************************************)
(* The worker thread step by step: between the moment it has recorded the  *)
(* result (update_video_task) and the moment it ends, the thread is alive. *)
(* Tasks are created as generate_video creates them, with                  *)
(* timeout=VIDEO_GEN_TIMEOUT; the external call reports success or hangs.  *)
(***************************************************************************)
\* _video_generation_thread, lines 257-261, 276-280, 290: the external call
\* comes back and the result is recorded; the thread remembers which status it
\* recorded
WorkerRecord(w, o) ==
    /\ workers[w].st = "calling"
    /\ LET r == Recorded(o) IN
         videos' = update_task_status(videos, workers[w].task, r.status, r.video_path, r.error)
    /\ workers' = [workers EXCEPT ![w].st = Recorded(o).status]
    /\ UNCHANGED <<now, running, active, procs, mons, published, ret, caller, action_events, busVars, auxVars, uuids>>

\* _video_generation_thread, lines 264-272, 283, 293: the status recorded is
\* published and the thread ends
WorkerFinish(w) ==
    /\ workers[w].st \in {"completed", "failed"}
    /\ published' = publish_result(published, workers[w].task, workers[w].st, videos)
    /\ action_events' = AfterPublish(action_events, workers[w].task, workers[w].st, videos)
    /\ workers' = [workers EXCEPT ![w].st = "dead"]
    /\ UNCHANGED <<videos, now, running, active, procs, mons, ret, caller, busVars, auxVars, uuids>>

NextSteps ==
    \/ start
    \/ CreateTask(0, Some(VIDEO_GEN_TIMEOUT))
    \/ \E p \in 1..Len(procs) : ProcSelect(p)
    \/ \E p \in 1..Len(procs) : ProcMark(p)
    \/ \E p \in 1..Len(procs) : ProcPublish(p)
    \/ \E p \in 1..Len(procs) : ProcDispatch(p)
    \/ \E w \in 1..Len(workers), o \in {x \in Outcomes : x.success} : WorkerRecord(w, o)
    \/ \E w \in 1..Len(workers) : WorkerFinish(w)
    \/ \E m \in 1..Len(mons) : MonitorPass(m)
    \/ Tick

SpecSteps == Init /\ [][NextSteps]_vars

\* C11: a task whose external call has reported success with result path u has
\* status completed and video_path u from then on (the claim's final state; its
\* first half, the claim on the next tick, is not at issue)
C11_SuccessIsFinal ==
    \A w \in 1..Len(workers) :
        workers[w].st /= "calling"
            => /\ HasStatus(workers[w].task, "completed")
               /\ videos[workers[w].task].video_path = Some("video.mp4")

\* the statuses published for task i on the video-task channel
PublishedStatuses(i) == {published[i][k] : k \in 1..Len(published[i])}

\* C13: every task that was moved to failed, by the worker, by the monitor or by
\* stop(), has a 'failed' event on the video-task channel (checked in
\* SpecLifecycle)
C13_FailedIsPublished ==
    \A i \in TaskIds : HasStatus(i, "failed") => "failed" \in PublishedStatuses(i)

(***************************************************************************)
(* Tasks with follow-up actions, created as generate_video creates them;   *)
(* the external call reports success or failure.                           *)
(***************************************************************************)
\* the action_sequence argument: no action, or one
ActionSequences == {<<>>, <<"twitter">>}

NextActions ==
    \/ start
    \/ \E seq \in ActionSequences :
          CreateTaskAs(0, Some(VIDEO_GEN_TIMEOUT), seq, Cardinality(DOMAIN videos) + 1)
    \/ \E p \in 1..Len(procs) : ProcSelect(p)
    \/ \E p \in 1..Len(procs) : ProcMark(p)
    \/ \E p \in 1..Len(procs) : ProcPublish(p)
    \/ \E p \in 1..Len(procs) : ProcDispatch(p)
    \/ \E w \in 1..Len(workers), o \in {x \in Outcomes : ~x.raises /\ Truthy(x.video_path) = x.success} :
          WorkerReturn(w, o)
    \/ \E m \in 1..Len(mons) : MonitorPass(m)
    \/ Tick

SpecActions == Init /\ [][NextActions]_vars

\* C14: for every completed task with a non-empty action_sequence an event with
\* the task's id, its action_sequence and its video_path is on the action-task
\* channel
C14_ActionHookInvoked ==
    \A i \in DOMAIN videos :
        (videos[i].status = "completed" /\ action_sequence_of(videos[i]) /= <<>>)
            => \E k \in 1..Len(action_events) :
                  /\ action_events[k].task_id = i
                  /\ action_events[k].action_sequence = action_sequence_of(videos[i])
                  /\ action_events[k].video_path = videos[i].video_path

(***************************************************************************)
(* Ingress: callers of Text2VideoGenerator.generate_video and of the       *)
(* module-level generate_video_from_text, over a store that                *)
(* update_video_task moves on.                                             *)
(***************************************************************************)
\* Text2VideoGenerator.generate_video(..., priority=pr) on store v and channel
\* pub at time t: a ValueError of create_video_task propagates
generate_video(v, pub, pr, t) ==
    LET r == create_task(v, pr, Some(VIDEO_GEN_TIMEOUT), t) IN
      IF r.raised
      THEN [videos |-> v, published |-> pub, raised |-> TRUE, value |-> 0]
      ELSE [videos |-> r.videos,
            published |-> publish_video_task(pub, r.value, "pending"),
            raised |-> FALSE, value |-> r.value]

\* def get_video_task_count() -> Dict[str, int]: its parameters
get_video_task_count_params == <<>>

\* get_video_task_count("pending"), line 357: the arguments of the call
PendingCountArgs == <<"pending">>

\* calling a function with more positional arguments than it has parameters
\* raises TypeError
TooManyArguments(args, params) == Len(args) > Len(params)

\* generate_video_from_text(..., priority=pr).  Were the count call to return, its
\* result is the dict of all counts, and dict >= int raises TypeError as well.
generate_video_from_text(v, pub, pr, t) ==
    IF TooManyArguments(PendingCountArgs, get_video_task_count_params)
    THEN [videos |-> v, published |-> pub, raised |-> TRUE, value |-> 0]
    ELSE [videos |-> v, published |-> pub, raised |-> TRUE, value |-> 0]

CallGenerateVideo(pr) ==
    LET r == generate_video(videos, published, pr, now) IN
      /\ r.raised \/ uuids < MaxTasks
      /\ videos' = r.videos
      /\ published' = r.published
      /\ uuids' = IF r.raised THEN uuids ELSE uuids + 1
      /\ ret' = [op |-> "generate_video", raised |-> r.raised, value |-> r.value]
      /\ UNCHANGED <<now, running, active, procs, mons, workers, caller, action_events, busVars, auxVars>>

CallGenerateVideoFromText(pr) ==
    LET r == generate_video_from_text(videos, published, pr, now) IN
      /\ r.raised \/ Cardinality(DOMAIN videos) < MaxTasks
      /\ videos' = r.videos
      /\ published' = r.published
      /\ ret' = [op |-> "generate_video_from_text", raised |-> r.raised, value |-> r.value]
      /\ UNCHANGED <<now, running, active, procs, mons, workers, caller, action_events, busVars, auxVars, uuids>>

NextIngress ==
    \/ \E pr \in Priorities : CallGenerateVideo(pr)
    \/ \E pr \in Priorities : CallGenerateVideoFromText(pr)
    \/ \E id \in TaskIds, a \in UpdateArgs : CallUpdateTaskStatus(id, a)

SpecIngress == Init /\ [][NextIngress]_vars

\* the tasks the step adds to the store
NewTasks == DOMAIN videos' \ DOMAIN videos

\* C15: a call of generate_video_from_text made while fewer than
\* MAX_QUEUE_LENGTH tasks are pending adds exactly one task, pending, publishes
\* a 'pending' event for it and returns its id
C15_IngressCreatesOne ==
    [][(ret'.op = "generate_video_from_text" /\ ret' /= ret
           /\ StatusCount("pending") < MAX_QUEUE_LENGTH)
          => /\ ~ret'.raised
             /\ NewTasks = {ret'.value}
             /\ videos'[ret'.value].status = "pending"
             /\ published'[ret'.value] = <<"pending">>
             /\ \A i \in DOMAIN videos : videos'[i] = videos[i]]_vars

(***************************************************************************)
(* The message broker alone, connected to Redis or on its in-memory        *)
(* fallback: callers subscribe callbacks and publish messages.             *)
(***************************************************************************)
InitBroker == InitPool /\ broker \in {MessageBroker(r) : r \in BOOLEAN}

NextBroker ==
    \/ \E ch \in Channels, cb \in Callbacks : Subscribe(ch, cb)
    \/ \E ch \in Channels : Publish(ch)
    \/ MessageWorkerBegin
    \/ MessageWorkerGet

SpecBroker == InitBroker /\ [][NextBroker]_vars

\* how many times callback cb was called with message k
TimesReceived(cb, k) == Cardinality({n \in 1..Len(received[cb]) : received[cb][n] = k})

\* message k is still on its way to the pubsub connection's reader
InFlight(k) == \E n \in 1..Len(broker.inbox) : broker.inbox[n].message = k

\* C16: every callback registered on the channel when message k was published
\* is called with k at most once, and exactly once when k is no longer in
\* flight; a publish never raises; a message published on a channel without
\* subscriber is delivered to nobody, whoever subscribes later
C16_EachSubscriberOnce ==
    /\ ret.op = "publish" => ~ret.raised
    /\ \A k \in 1..Len(sent) :
          /\ \A cb \in sent[k].subs :
                /\ TimesReceived(cb, k) <= 1
                /\ ~InFlight(k) => TimesReceived(cb, k) = 1
          /\ sent[k].subs = {} => \A cb \in Callbacks : TimesReceived(cb, k) = 0

\* two callbacks were on a channel when a message was published and both have
\* received it, and a message published to nobody was followed by a subscription
\* to its channel
C16_Witness ==
    /\ \E k \in 1..Len(sent) :
          /\ Cardinality(sent[k].subs) >= 2
          /\ \A cb \in sent[k].subs : TimesReceived(cb, k) = 1
    /\ \E k \in 1..Len(sent) :
          /\ sent[k].subs = {}
          /\ Registered(broker, sent[k].channel) /= <<>>

(***************************************************************************)
(* Selection among tasks that carry their ids: uuid.uuid4() returns ids in *)
(* no relation to the order of creation.                                   *)
(***************************************************************************)
\* the ids uuid4 has handed out
UsedIds(v) == {v[k].id : k \in DOMAIN v}

NextIds ==
    \/ start
    \/ \E u \in TaskIds \ UsedIds(videos) : CreateTaskAs(0, None, <<>>, u)
    \/ \E p \in 1..Len(procs) : ProcSelect(p)
    \/ \E p \in 1..Len(procs) : ProcMark(p)
    \/ \E p \in 1..Len(procs) : ProcPublish(p)
    \/ \E p \in 1..Len(procs) : ProcDispatch(p)
    \/ \E w \in 1..Len(workers) :
          WorkerReturn(w, [raises |-> FALSE, success |-> TRUE,
                           video_path |-> Some("video.mp4"), error |-> None])
    \/ \E m \in 1..Len(mons) : MonitorPass(m)
    \/ Tick

SpecIds == Init /\ [][NextIds]_vars

\* the same task records, inserted into the dict in the opposite order
Reversed(v) == [k \in DOMAIN v |-> v[Cardinality(DOMAIN v) + 1 - k]]

\* the id of the task _task_processor selects from store v (lines 147-154)
SelectedId(v) == v[sorted(v, get_pending_tasks(v))[1]].id

\* tasks i and j of store v are tied on the sort key
Tied(v, i, j) == v[i].priority = v[j].priority /\ v[i].created_at = v[j].created_at

\* C20: when all pending tasks have equal priority and equal created_at, the task
\* the processor selects is the one it would select had the same tasks been
\* inserted into the store in the opposite order: the choice depends on the ids,
\* not on the insertion order
C20_TieBrokenById ==
    [][\A p \in 1..Len(procs) :
          (/\ Selects(p)
           /\ \A i, j \in DOMAIN videos :
                 (IsPending(videos, i) /\ IsPending(videos, j)) => Tied(videos, i, j))
              => videos[procs'[p].task].id = SelectedId(Reversed(videos))]_vars

(***************************************************************************)
(* VideoTaskMonitor (server/tasks/video_tasks/video_tasks.py): the poller  *)
(* of the D-ID video API and its MongoDB collection video_tasks.           *)
(***************************************************************************)
\* the videos ever submitted to the API, by d_id_video_id
VideoIds == 1..MaxVideos

\* the status strings the mapping names, and those of the D-ID API besides
ApiStatuses ==
    {"done", "ready", "completed", "created", "pending", "processing", "in_progress",
     "started", "error", "rejected"}

\* what get_video_status returns: status passed on as the API gave it (or "error"
\* when the request failed), result_url as given, error set for status "error"
ApiResults ==
    {r \in [status : ApiStatuses, result_url : {None, Some("https://video")},
            error : {None, Some("api error")}] :
        (r.error /= None) <=> (r.status = "error")}

\* publish_to_tiktok: published, refused, or an exception
TikTokOutcomes == {"published", "refused", "raised"}

\* _update_task_status, lines 196-205
mapped_status(api_status) ==
    IF api_status \in {"done", "ready", "completed"} THEN "done"
    ELSE IF api_status \in {"created", "pending"} THEN "created"
    ELSE IF api_status \in {"processing", "in_progress"} THEN "started"
    ELSE api_status

\* _generate_video of the timeline and special-attention tasks: the document of a
\* submitted video is upserted with the status create_video returned
SaveVideoInfo(d) ==
    /\ d \notin DOMAIN video_tasks
    /\ video_tasks' = (d :> [status |-> "created", attempt |-> 0, result_url |-> None,
                            error |-> None, tiktok_published |-> None]) @@ video_tasks
    /\ UNCHANGED <<poolVars, busVars, ret, creators, processed_uids, logVars>>

\* (the query takes the documents in status error too)
NeedsUpdate_RetriesErrors(doc) == doc.status \in {"created", "started", "error"}

\* _get_pending_tasks: the query on status
NeedsUpdate(doc) == doc.status \in {"created", "started"}

\* _update_task_status(task) for the document of video d, the API answering r and
\* TikTok ending as tk: the document afterwards
update_video_doc(doc, r, tk) ==
    LET current_attempt == doc.attempt + 1
        first == [doc EXCEPT !.status = mapped_status(r.status),
                             !.attempt = current_attempt,
                             !.result_url = r.result_url,
                             !.error = r.error]
    IN  IF mapped_status(r.status) = "done"
        THEN IF r.result_url = None
             THEN first   \* None.replace raises AttributeError: the outer except
             ELSE [first EXCEPT !.tiktok_published = Some(tk = "published")]
        ELSE IF current_attempt >= max_check_attempts
        THEN [first EXCEPT !.status = "timeout"]
        ELSE first

\* one call of _update_task_status from the polling loop
UpdateVideoTask(d, r, tk) ==
    /\ d \in DOMAIN video_tasks
    /\ NeedsUpdate(video_tasks[d])
    /\ video_tasks' = [video_tasks EXCEPT ![d] = update_video_doc(@, r, tk)]
    /\ UNCHANGED <<poolVars, busVars, ret, creators, processed_uids, logVars>>

NextVideoTasks ==
    \/ \E d \in VideoIds : SaveVideoInfo(d)
    \/ \E d \in VideoIds, r \in ApiResults, tk \in TikTokOutcomes : UpdateVideoTask(d, r, tk)

SpecVideoTasks == Init /\ [][NextVideoTasks]_vars

InternalStatuses == {"created", "started", "done", "error"}

\* C21: whatever status string the video API returns, the status the poller
\* writes to the task document is one of created, started, done, error
C21_StatusMappedToFour ==
    \A d \in DOMAIN video_tasks : video_tasks[d].status \in InternalStatuses

(***************************************************************************)
(* The running pool whose tasks are deleted, at any moment of their lives, *)
(* by a caller of delete_task; the external calls succeed, early or late.  *)
(***************************************************************************)
NextDelete ==
    \/ /\ PoolNext({0}, {Some(VIDEO_GEN_TIMEOUT)}, {o \in Outcomes : o.success})
       /\ uuids' <= MaxLifecycleTasks
    \/ \E id \in TaskIds : CallDeleteTask(id)

SpecDelete == Init /\ [][NextDelete]_vars

\* the ids of the tasks in the status lists (get_pending_tasks and the like)
Listed(v) == {i \in DOMAIN v : v[i].status \in {"pending", "processing", "completed", "failed"}}

\* the ids uuid4 has returned whose records are gone
Deleted == (1..uuids) \ DOMAIN videos

\* C22: delete_task on a known id removes the record, so that get_task returns None
\* and no status list holds the task, and no later step (a worker's completion, a
\* monitor pass) brings the record back; on an unknown id it returns False and
\* leaves the store unchanged
C22_DeleteRemovesForGood ==
    [][/\ \A id \in TaskIds :
            CallDeleteTask(id) =>
                IF id \in DOMAIN videos
                THEN /\ get_task(videos', id) = None
                     /\ id \notin Listed(videos')
                     /\ \A j \in DOMAIN videos \ {id} : get_task(videos', j) = Some(videos[j])
                ELSE ret'.value = 0 /\ videos' = videos
       /\ \A i \in Deleted : i \notin DOMAIN videos']_vars

\* a task was deleted while its unit of work ran, and the unit of work has ended
C22_Witness ==
    \E w \in 1..Len(workers) :
        /\ workers[w].st = "dead"
        /\ workers[w].task \in Deleted
        /\ published[workers[w].task] = <<"processing", "completed", "failed">>

(***************************************************************************)
(* The store over days: tasks are created and completed, seconds and days  *)
(* pass, and the retention sweep runs.                                     *)
(***************************************************************************)
NextRetention ==
    \/ /\ CallCreateTask(0, None)
       /\ uuids' <= MaxLifecycleTasks
    \/ \E id \in TaskIds :
          CallUpdateTaskStatus(id, [status |-> "completed",
                                    video_path |-> Some("video.mp4"), error |-> None])
    \/ \E d \in {1, SecondsPerDay} : Elapse(d)
    \/ \E days \in 0..MaxDays : CallCleanOldTasks(days)

SpecRetention == Init /\ [][NextRetention]_vars

\* the tasks of store v created more than days * 86400 seconds before t
OlderThan(v, days, t) == {i \in DOMAIN v : v[i].created_at + days * 86400 < t}

\* C23: clean_old_tasks(days) removes exactly the tasks created more than
\* days * 86400 seconds before the current time, leaves every other record as it
\* was, and returns the number of tasks it removed
C23_CleanRemovesExactlyOld ==
    [][\A days \in 0..MaxDays :
          CallCleanOldTasks(days) =>
              /\ DOMAIN videos' = DOMAIN videos \ OlderThan(videos, days, now)
              /\ \A i \in DOMAIN videos' : videos'[i] = videos[i]
              /\ ret'.value = Cardinality(OlderThan(videos, days, now))]_vars

\* the sweep removed one task and kept another that is exactly one day old
C23_Witness ==
    /\ ret.op = "clean_old_tasks"
    /\ ret.value = 1
    /\ \E i \in DOMAIN videos : now - videos[i].created_at = 86400

(***************************************************************************)
(* DBUIDTracker (warehouse/utils/uid_tracker.py): the collection           *)
(* processed_uids, one document per _id, kept here in the order of         *)
(* processed_at (datetime.now() of a later call is later).                 *)
(***************************************************************************)
Uids == 1..MaxUids

\* the task_id of the tasks that share the uid_tracker singleton
TrackerTasks == {"timeline_task", "special_attention_task"}

\* find_one({"_id": uid}): the place of the document, 0 if there is none
FindById(c, uid) ==
    IF \E k \in 1..Len(c) : c[k].uid = uid
    THEN CHOOSE k \in 1..Len(c) : c[k].uid = uid
    ELSE 0

\* count_documents({"task_id": task_id})
CountOf(c, task_id) == Len(SelectSeq(c, LAMBDA doc : doc.task_id = task_id))

\* _trim_collection(task_id): the oldest count - max_size documents of the task
\* are deleted
RECURSIVE DropOldest(_, _, _)
DropOldest(c, task_id, n) ==
    IF n <= 0 \/ c = <<>> THEN c
    ELSE IF Head(c).task_id = task_id THEN DropOldest(Tail(c), task_id, n - 1)
    ELSE <<Head(c)>> \o DropOldest(Tail(c), task_id, n)

\* (the bound is kept on the whole collection, whatever the task of the oldest)
trim_collection_AnyTask(c, task_id) ==
    IF Len(c) > max_size THEN SubSeq(c, Len(c) - max_size + 1, Len(c)) ELSE c

trim_collection(c, task_id) == DropOldest(c, task_id, CountOf(c, task_id) - max_size)

\* add_uid(uid, task_id): the collection afterwards
add_uid(c, uid, task_id) ==
    LET k == FindById(c, uid)
        doc == [uid |-> uid, task_id |-> task_id]
        rest == SelectSeq(c, LAMBDA d : d.uid /= uid)
    IN  trim_collection(IF k /= 0 THEN Append(rest, doc) ELSE Append(c, doc), task_id)

\* is_processed(uid, task_id): find_one({"_id": uid, "task_id": task_id}) is not None
is_processed(c, uid, task_id) ==
    \E k \in 1..Len(c) : c[k].uid = uid /\ c[k].task_id = task_id

\* get_unprocessed(uids, task_id)
get_unprocessed(c, uids, task_id) ==
    SelectSeq(uids, LAMBDA uid : ~is_processed(c, uid, task_id))

\* clear_task_records(task_id)
clear_task_records(c, task_id) == SelectSeq(c, LAMBDA doc : doc.task_id /= task_id)

AddUid(uid, task_id) ==
    /\ processed_uids' = add_uid(processed_uids, uid, task_id)
    /\ UNCHANGED <<poolVars, busVars, ret, creators, video_tasks, logVars>>

ClearTaskRecords(task_id) ==
    /\ processed_uids' = clear_task_records(processed_uids, task_id)
    /\ UNCHANGED <<poolVars, busVars, ret, creators, video_tasks, logVars>>

NextTracker ==
    \/ \E uid \in Uids, task_id \in TrackerTasks : AddUid(uid, task_id)
    \/ \E task_id \in TrackerTasks : ClearTaskRecords(task_id)

SpecTracker == Init /\ [][NextTracker]_vars

\* C24: a uid that task a has processed stays processed for a when another task b
\* adds the same uid (a step that neither trims nor clears the records of a)
C24_PerTaskState ==
    [][\A uid \in Uids, a \in TrackerTasks, b \in TrackerTasks :
          (a /= b /\ is_processed(processed_uids, uid, a) /\ AddUid(uid, b))
              => is_processed(processed_uids', uid, a)]_vars

(***************************************************************************)
(* Tracking of the tasks in processing, in one process and the next.       *)
(***************************************************************************)
\* The server process ends and a new one is started.  Importing video_pool builds
\* VideoPool(), whose _load_metadata reads metadata.json as _save_metadata wrote
\* it after the last change of the store; importing text2video builds a
\* Text2VideoGenerator with running False, no threads and no active tasks.
ProcessRestart ==
    /\ videos' = videos
    /\ running' = FALSE
    /\ active' = <<>>
    /\ procs' = <<>>
    /\ mons' = <<>>
    /\ workers' = <<>>
    /\ caller' = "idle"
    /\ ret' = NoCall
    /\ UNCHANGED <<now, published, action_events, busVars, auxVars, uuids>>

NextRestart ==
    \/ /\ PoolNext({0}, {Some(VIDEO_GEN_TIMEOUT)}, {o \in Outcomes : o.raises \/ o.success})
       /\ uuids' <= MaxLifecycleTasks
       /\ Len(procs') <= 1
    \/ StopBegin
    \/ StopEnd
    \/ \E p \in 1..Len(procs) : ProcExit(p)
    \/ \E m \in 1..Len(mons) : MonExit(m)
    \/ ProcessRestart

SpecRestart == Init /\ [][NextRestart]_vars

\* the tasks a processor has marked and not yet entered in active_tasks
BeingDispatched == {procs[p].task : p \in {q \in 1..Len(procs) : procs[q].pc \in {"marked", "published"}}}

\* C27: every task whose status is processing has an entry in the active set,
\* apart from a task the processor is in the middle of dispatching
C27_ProcessingIsTracked ==
    \A i \in DOMAIN videos :
        videos[i].status = "processing" => i \in ActiveIds(active) \cup BeingDispatched

(***************************************************************************)
(* create_task called from several threads: the length test (lines 84-86)  *)
(* and the insertion (line 105) are separate steps, and VideoPool holds no *)
(* lock.                                                                   *)
(***************************************************************************)
\* lines 84-86: the thread reads the pending tasks and passes the test (a thread
\* that fails it raises ValueError and changes nothing)
CreateCheck(pr, to) ==
    /\ Len(creators) < MaxCreators
    /\ uuids + Len(creators) < MaxTasks
    /\ ~QueueFull(videos)
    /\ creators' = Append(creators, [priority |-> pr, timeout |-> to])
    /\ UNCHANGED <<poolVars, busVars, ret, video_tasks, processed_uids, logVars>>

\* lines 88-106: thread c takes its id, builds the record and stores it
CreateInsert(c) ==
    /\ LET id == uuids + 1 IN
         videos' = (id :> NewTask(creators[c].priority, creators[c].timeout, now)) @@ videos
    /\ uuids' = uuids + 1
    /\ creators' = [k \in 1..(Len(creators) - 1) |->
                       IF k < c THEN creators[k] ELSE creators[k + 1]]
    /\ UNCHANGED <<now, running, active, procs, mons, workers, published, ret, caller,
                   action_events, busVars, video_tasks, processed_uids, logVars>>

NextCreators ==
    \/ \E to \in Timeouts : CreateCheck(0, to)
    \/ \E c \in 1..Len(creators) : CreateInsert(c)
    \/ \E id \in TaskIds, a \in UpdateArgs : CallUpdateTaskStatus(id, a)

SpecCreators == Init /\ [][NextCreators]_vars

\* C28: the number of pending tasks never exceeds MAX_QUEUE_LENGTH, also when
\* create_task runs in several threads whose test and insertion interleave
C28_PendingBoundedConcurrently == Len(get_pending_tasks(videos)) <= MAX_QUEUE_LENGTH

(***************************************************************************)
(* The unit of work and every shape of answer of the external call: also   *)
(* success reported without a path or with an empty one, and failure       *)
(* reported with an empty error or with a path.                            *)
(***************************************************************************)
AllOutcomes ==
    Outcomes \cup
    { [raises |-> FALSE, success |-> TRUE,  video_path |-> None, error |-> None],
      [raises |-> FALSE, success |-> TRUE,  video_path |-> Some(""), error |-> Some("api error")],
      [raises |-> FALSE, success |-> FALSE, video_path |-> Some("video.mp4"), error |-> Some("")] }

NextOutcomes ==
    /\ PoolNext({0}, {Some(VIDEO_GEN_TIMEOUT)}, AllOutcomes)
    /\ uuids' <= MaxLifecycleTasks

SpecOutcomes == Init /\ [][NextOutcomes]_vars

\* the external call reported success together with a non-empty video path
ReportsVideo(o) == ~o.raises /\ o.success /\ o.video_path \notin {None, Some("")}

\* the error an outcome reports: the exception's message as line 289 words it, the
\* error string returned, or nothing
ReportedError(o) ==
    IF o.raises THEN Some(ExceptionMessage)
    ELSE IF o.error \in {None, Some("")} THEN None
    ELSE o.error

\* C30: a unit of work marks its task completed only when the call reports
\* success together with a non-empty video path, and stores that path; in every
\* other outcome it marks the task failed with the reported error, or with
\* 'Unknown error during video generation' when none was reported
C30_OutcomeRecorded ==
    [][\A w \in 1..Len(workers), o \in AllOutcomes :
          WorkerReturn(w, o) =>
              LET task == videos'[workers[w].task] IN
              IF ReportsVideo(o)
              THEN task.status = "completed" /\ task.video_path = o.video_path
              ELSE /\ task.status = "failed"
                   /\ task.error = IF ReportedError(o) /= None THEN ReportedError(o)
                                    ELSE Some("Unknown error during video generation")]_vars

\* one task failed for an unnamed reason, another with the error reported
C30_Witness ==
    /\ \E i \in DOMAIN videos :
          videos[i].status = "failed"
              /\ videos[i].error = Some("Unknown error during video generation")
    /\ \E i \in DOMAIN videos :
          videos[i].status = "failed" /\ videos[i].error = Some("api error")

(***************************************************************************)
(* The processor loop with its idle iterations written out: an iteration   *)
(* that finds the active set full, or no task pending, sleeps for          *)
(* TASK_CHECK_INTERVAL and goes back to the loop's test.                   *)
(***************************************************************************)
\* _task_processor, lines 139-150: the iteration that only sleeps
ProcIdle(p) ==
    /\ procs[p].pc = "top"
    /\ running
    /\ ~HasCapacity \/ get_pending_tasks(videos) = <<>>
    /\ procs' = [procs EXCEPT ![p].pc = "sleeping"]
    /\ UNCHANGED <<videos, now, running, active, mons, workers, published, ret, caller, action_events, busVars, auxVars, uuids>>

\* time.sleep(TASK_CHECK_INTERVAL) returns, `continue`
ProcWake(p) ==
    /\ procs[p].pc = "sleeping"
    /\ procs' = [procs EXCEPT ![p].pc = "top"]
    /\ UNCHANGED <<videos, now, running, active, mons, workers, published, ret, caller, action_events, busVars, auxVars, uuids>>

NextTicks ==
    \/ PoolNext({0}, {Some(VIDEO_GEN_TIMEOUT)}, {o \in Outcomes : o.success})
    \/ \E p \in 1..Len(procs) : ProcIdle(p)
    \/ \E p \in 1..Len(procs) : ProcWake(p)

SpecTicks == Init /\ [][NextTicks]_vars

\* processor p starts an iteration of its loop: it leaves the loop's test
StartsIteration(p) == procs[p].pc = "top" /\ procs'[p].pc /= "top"

\* C31: a processor tick taken while the active set holds MAX_CONCURRENT_TASKS
\* entries, or while no task is pending, changes no task record, publishes no
\* event and starts no unit of work: the iteration goes to sleep, nothing selected
C31_IdleTickIsNoOp ==
    [][\A p \in 1..Len(procs) :
          (/\ StartsIteration(p)
           /\ \/ Len(active) >= MAX_CONCURRENT_TASKS
              \/ get_pending_tasks(videos) = <<>>)
          => /\ procs'[p] = [procs[p] EXCEPT !.pc = "sleeping"]
             /\ UNCHANGED <<videos, published, action_events, workers, active>>]_vars

\* a processor sleeps while the active set is full and a task waits
C31_Witness ==
    /\ Len(active) = MAX_CONCURRENT_TASKS
    /\ get_pending_tasks(videos) /= <<>>
    /\ \E p \in 1..Len(procs) : procs[p].pc = "sleeping"

(***************************************************************************)
(* Who changes the active set.                                             *)
(***************************************************************************)
\* a step of processor p, whichever
ProcStep(p) ==
    \/ ProcSelect(p) \/ ProcMark(p) \/ ProcPublish(p) \/ ProcDispatch(p)
    \/ ProcIdle(p) \/ ProcWake(p)

\* the ids of the entries a monitor pass finds alive and past their timeout
Overdue ==
    {active[k].id : k \in {j \in 1..Len(active) :
                              /\ is_alive(active[j].thread)
                              /\ active[j].timeout /= None
                              /\ TimedOut(active[j])}}

\* C32: the monitor never adds an entry to the active set and the processor
\* never removes one; when the monitor removes the entry of a finished unit of
\* work it changes neither that task's record nor any other task's record and
\* publishes no event (what a pass changes and publishes is for the entries it
\* finds alive and timed out)
C32_ActiveSetOwnership ==
    [][/\ \A m \in 1..Len(mons) :
            MonitorPass(m) =>
                /\ ActiveIds(active') \subseteq ActiveIds(active)
                /\ \A i \in DOMAIN videos :
                      i \notin Overdue => videos'[i] = videos[i]
                /\ \A i \in TaskIds :
                      i \notin Overdue => published'[i] = published[i]
                /\ UNCHANGED action_events
       /\ \A p \in 1..Len(procs) :
            ProcStep(p) => ActiveIds(active) \subseteq ActiveIds(active')]_vars

\* a monitor pass has removed the entry of a finished unit of work: the task is
\* completed and its events are the two of its processor and its thread
C32_Witness ==
    \E w \in 1..Len(workers) :
        /\ workers[w].st = "dead"
        /\ workers[w].task \notin ActiveIds(active)
        /\ HasStatus(workers[w].task, "completed")
        /\ published[workers[w].task] = <<"processing", "completed">>
        /\ \E m \in 1..Len(mons) : mons[m].wait = TASK_CHECK_INTERVAL

(***************************************************************************)
(* The loops that start() creates and stop() asks to end.                  *)
(***************************************************************************)
\* the _task_processor threads that have not left their while loop
LiveProcessors == {p \in 1..Len(procs) : procs[p].pc /= "exited"}

\* the _task_monitor threads that have not left their while loop
LiveMonitors == {m \in 1..Len(mons) : mons[m].pc /= "exited"}

\* C33: for any sequence of start() and stop() calls, at most one task-processor
\* loop and at most one task-monitor loop are running at any time
C33_OneLoopEach ==
    /\ Cardinality(LiveProcessors) <= 1
    /\ Cardinality(LiveMonitors) <= 1

(***************************************************************************)
(* The generator after stop() has returned.                                *)
(***************************************************************************)
\* stop() has returned and start() has not been called since
Stopped == ~running /\ caller = "idle" /\ Len(procs) > 0

\* task i was failed by stop()
FailedByStop(v, i) ==
    i \in DOMAIN v /\ v[i].status = "failed" /\ v[i].error = Some("Service stopped")

NoneProcessing(v) == \A i \in DOMAIN v : v[i].status /= "processing"

\* C34: when stop() returns, every task that was in the active set has status
\* failed with error 'Service stopped', the active set is empty and no task has
\* status processing; this remains so until start() is called again
C34_StopIsFinal ==
    [][/\ StopEnd =>
            /\ \A i \in ActiveIds(active) : FailedByStop(videos', i)
            /\ active' = <<>>
            /\ NoneProcessing(videos')
       /\ (Stopped /\ ~running') =>
            /\ \A i \in TaskIds : FailedByStop(videos, i) => FailedByStop(videos', i)
            /\ active = <<>> => active' = <<>>
            /\ NoneProcessing(videos) => NoneProcessing(videos')]_vars

(***************************************************************************)
(* The store's calls with the write of metadata.json written out: the file *)
(* is written (ok) or open/json.dump raises, which _save_metadata catches.  *)
(***************************************************************************)
\* VideoPool._save_metadata: True (1), or False (0) from its except clause
save_metadata(ok) == IF ok THEN 1 ELSE 0

\* update_video_task(id, ...): line 129 returns False, line 142 what the save returns
CallUpdateTaskStatusSaving(id, a, ok) ==
    /\ videos' = update_task_status(videos, id, a.status, a.video_path, a.error)
    /\ ret' = [op |-> "update_task_status", raised |-> FALSE,
               value |-> IF id \notin DOMAIN videos THEN 0 ELSE save_metadata(ok)]
    /\ UNCHANGED <<now, running, active, procs, mons, workers, published, caller,
                   action_events, busVars, auxVars, uuids>>

\* video_pool.delete_task(id): line 216 returns False, line 230 what the save returns
CallDeleteTaskSaving(id, ok) ==
    /\ videos' = delete_task(videos, id).videos
    /\ ret' = [op |-> "delete_task", raised |-> FALSE,
               value |-> IF id \notin DOMAIN videos THEN 0 ELSE save_metadata(ok)]
    /\ UNCHANGED <<now, running, active, procs, mons, workers, published, caller,
                   action_events, busVars, auxVars, uuids>>

NextSave ==
    \/ \E to \in Timeouts : CallCreateTask(0, to)
    \/ \E id \in TaskIds, a \in UpdateArgs, ok \in BOOLEAN :
          CallUpdateTaskStatusSaving(id, a, ok)
    \/ \E id \in TaskIds, ok \in BOOLEAN : CallDeleteTaskSaving(id, ok)

SpecSave == Init /\ [][NextSave]_vars

\* C35: whenever update_task_status or delete_task returns False, the in-memory
\* task store is exactly as it was before the call
C35_FalseMeansUnchanged ==
    [][\A id \in TaskIds, ok \in BOOLEAN :
          (\/ \E a \in UpdateArgs : CallUpdateTaskStatusSaving(id, a, ok)
           \/ CallDeleteTaskSaving(id, ok))
          => (ret'.value = 0 => videos' = videos)]_vars

(***************************************************************************)
(* The in-memory broker with its callbacks' calls written out: each call   *)
(* of publish names the callbacks that raise when called with the message. *)
(***************************************************************************)
\* (the loop over the callbacks ends at the first one that raises)
RECURSIVE Invocations_StopAtRaise(_, _, _)
Invocations_StopAtRaise(cbs, k, R) ==
    IF cbs = <<>> THEN <<>>
    ELSE IF Head(cbs) \in R
    THEN <<[callback |-> Head(cbs), message |-> k, raised |-> TRUE]>>
    ELSE <<[callback |-> Head(cbs), message |-> k, raised |-> FALSE]>>
            \o Invocations_StopAtRaise(Tail(cbs), k, R)

\* publish, lines 91-96: the calls made for message k while the callbacks in R
\* raise; the except clause at line 95 logs and the for loop goes on
RECURSIVE Invocations(_, _, _)
Invocations(cbs, k, R) ==
    IF cbs = <<>> THEN <<>>
    ELSE <<[callback |-> Head(cbs), message |-> k, raised |-> Head(cbs) \in R]>>
            \o Invocations(Tail(cbs), k, R)

\* MessageBroker.publish(channel, message) on the in-memory broker
PublishCalling(ch, R) ==
    /\ ~broker.redis
    /\ Len(sent) < MaxMessages
    /\ LET k == Len(sent) + 1
           made == Invocations(broker.callbacks[ch], k, R) IN
         /\ sent' = Append(sent, [channel |-> ch, subs |-> Range(Registered(broker, ch))])
         /\ broker' = [broker EXCEPT !.messages = Append(@, [channel |-> ch, message |-> k])]
         /\ calls' = calls \o made
         /\ received' = [cb \in Callbacks |->
                            received[cb] \o
                            [n \in 1..Len(SelectSeq(made, LAMBDA c : c.callback = cb)) |-> k]]
         /\ ret' = [op |-> "publish", raised |-> FALSE, value |-> 1]
    /\ UNCHANGED <<poolVars, creators, video_tasks, processed_uids, recent_uids>>

InitFallback == InitPool /\ broker = MessageBroker(FALSE)

NextFallback ==
    \/ \E ch \in Channels, cb \in Callbacks : Subscribe(ch, cb)
    \/ \E ch \in Channels, R \in SUBSET Callbacks : PublishCalling(ch, R)

SpecFallback == InitFallback /\ [][NextFallback]_vars

\* the calls made for message k, in order
CallsFor(k) == SelectSeq(calls, LAMBDA c : c.message = k)

\* C36: in the in-memory broker, a subscriber callback that raises does not
\* prevent the remaining subscribers of the channel from receiving the same
\* message and does not make publish raise or return False; callbacks are
\* invoked in subscription order
C36_RaisingCallbackIsIsolated ==
    /\ ret.op = "publish" => ~ret.raised /\ ret.value = 1
    /\ \A k \in 1..Len(sent) :
          LET order == broker.callbacks[sent[k].channel]
              n == Cardinality(sent[k].subs) IN
          /\ Len(CallsFor(k)) = n
          /\ \A j \in 1..n : CallsFor(k)[j].callback = order[j]
          /\ \A cb \in sent[k].subs : TimesReceived(cb, k) = 1

\* the first subscriber of a channel raised on a message and the second one was
\* called with it afterwards
C36_Witness ==
    \E k \in 1..Len(sent) :
        /\ Len(CallsFor(k)) = 2
        /\ CallsFor(k)[1].raised
        /\ CallsFor(k)[1].callback /= CallsFor(k)[2].callback
        /\ TimesReceived(CallsFor(k)[2].callback, k) = 1

(***************************************************************************)
(* The polls of VideoTaskMonitor: a poll of a document is the step that    *)
(* rewrites it.                                                            *)
(***************************************************************************)
\* the document of video d is polled in this step: _update_task_status writes
\* the new attempt count with whatever else it writes (lines 208-226)
Polled(d) ==
    /\ d \in DOMAIN video_tasks
    /\ video_tasks'[d] /= video_tasks[d]

\* C37: each poll of a task increases its attempt counter by exactly one; the
\* counter never passes max_check_attempts, the status is timeout after the poll
\* on which the counter reaches it unless the video is done, and a task whose
\* status is done, error or timeout is never polled again
C37_PollsAreCounted ==
    [][\A d \in VideoIds :
          Polled(d) =>
              /\ video_tasks[d].status \notin {"done", "error", "timeout"}
              /\ video_tasks'[d].attempt = video_tasks[d].attempt + 1
              /\ video_tasks'[d].attempt <= max_check_attempts
              /\ (video_tasks'[d].attempt = max_check_attempts
                      /\ video_tasks'[d].status /= "done")
                  => video_tasks'[d].status = "timeout"]_vars

\* a video was polled max_check_attempts times without becoming done, and
\* another one is done after one poll
C37_Witness ==
    /\ \E d \in DOMAIN video_tasks :
          video_tasks[d].attempt = max_check_attempts /\ video_tasks[d].status = "timeout"
    /\ \E d \in DOMAIN video_tasks :
          video_tasks[d].attempt = 1 /\ video_tasks[d].status = "done"

(***************************************************************************)
(* RecentUIDTracker (warehouse/api.py): the uids stored lately, by source  *)
(* type.  Each entry is a pair (uid, time); get_uids reads the time only   *)
(* when max_age_hours is given, and the calls here give none, so an entry  *)
(* is written as its uid.                                                  *)
(***************************************************************************)
RecentUids == 1..MaxRecent

\* the source types add_uid and get_uids tell apart; any other is "other"
SourceTypes == {"followed", "trending", "other"}

\* the min_items arguments: the default and one that a short list does not meet
MinItemsArgs == {0, MaxRecent - 1}

Tracked(t) == t.followed \o t.trending \o t.other

\* RecentUIDTracker.add_uid(uid, source_type): the lists afterwards
track_uid(t, uid, source_type) ==
    IF source_type = "followed" THEN [t EXCEPT !.followed = Append(@, uid)]
    ELSE IF source_type = "trending" THEN [t EXCEPT !.trending = Append(@, uid)]
    ELSE [t EXCEPT !.other = Append(@, uid)]

\* RecentUIDTracker.get_uids(source_type, clear, min_items), max_age_hours None:
\* the lists afterwards and the list returned
get_uids(t, source_type, clear, min_items) ==
    LET uids == IF source_type = "followed" THEN t.followed
                ELSE IF source_type = "trending" THEN t.trending
                ELSE IF source_type = "all" THEN Tracked(t)
                ELSE t.other
        after == IF ~clear THEN t
                 ELSE IF source_type = "followed" THEN [t EXCEPT !.followed = <<>>]
                 ELSE IF source_type = "trending" THEN [t EXCEPT !.trending = <<>>]
                 ELSE IF source_type = "all"
                 THEN [followed |-> <<>>, trending |-> <<>>, other |-> <<>>]
                 ELSE [t EXCEPT !.other = <<>>]
    IN  [tracker |-> after,
         value |-> IF Len(uids) < min_items THEN <<>> ELSE uids]

\* POST /store has stored an item: uid_tracker.add_uid(uid, source_type)
TrackUid(uid, source_type) ==
    /\ Len(Tracked(recent_uids)) < MaxRecent
    /\ recent_uids' = track_uid(recent_uids, uid, source_type)
    /\ UNCHANGED <<poolVars, busVars, ret, creators, video_tasks, processed_uids, calls>>

\* GET /data-source: uid_tracker.get_uids(source_type, min_items, None, clear)
GetUids(source_type, clear, min_items) ==
    /\ LET r == get_uids(recent_uids, source_type, clear, min_items) IN
         /\ recent_uids' = r.tracker
         /\ ret' = [op |-> "get_uids", raised |-> FALSE, value |-> r.value]
    /\ UNCHANGED <<poolVars, busVars, creators, video_tasks, processed_uids, calls>>

NextRecent ==
    \/ \E uid \in RecentUids, st \in SourceTypes : TrackUid(uid, st)
    \/ \E st \in SourceTypes \cup {"all"}, clear \in BOOLEAN, n \in MinItemsArgs :
          GetUids(st, clear, n)

SpecRecent == Init /\ [][NextRecent]_vars

\* the uids of the lists this step has emptied, in the order followed, trending, other
Cleared ==
    (IF recent_uids'.followed = <<>> THEN recent_uids.followed ELSE <<>>)
    \o (IF recent_uids'.trending = <<>> THEN recent_uids.trending ELSE <<>>)
    \o (IF recent_uids'.other = <<>> THEN recent_uids.other ELSE <<>>)

\* C38: get_uids called without max_age_hours removes a uid from the tracker only
\* if that call returns it: the list returned is exactly what was cleared, and a
\* call that returns an empty list because fewer than min_items uids are held
\* leaves the tracked uids in place
C38_ClearedIsReturned ==
    [][\A st \in SourceTypes \cup {"all"}, clear \in BOOLEAN, n \in MinItemsArgs :
          GetUids(st, clear, n) =>
              /\ recent_uids' /= recent_uids => ret'.value = Cleared
              /\ ret'.value = <<>> => recent_uids' = recent_uids]_vars

(***************************************************************************)
(* The bound DBUIDTracker keeps on each task's records.                    *)
(***************************************************************************)
\* the uids of the task's records, oldest processed_at first
UidsOf(c, task_id) ==
    LET docs == SelectSeq(c, LAMBDA doc : doc.task_id = task_id) IN
    [k \in 1..Len(docs) |-> docs[k].uid]

\* the records of the other tasks, the one of uid aside, oldest first
OthersOf(c, uid, task_id) ==
    SelectSeq(c, LAMBDA doc : doc.task_id /= task_id /\ doc.uid /= uid)

\* the last n elements of a sequence, all of it if it is shorter
Newest(s, n) == IF Len(s) <= n THEN s ELSE SubSeq(s, Len(s) - n + 1, Len(s))

\* C39: after add_uid(uid, task) returns, the task holds at most max_size
\* records; the records removed to restore the bound are the ones with the
\* oldest processed_at of that task, never records of another task
C39_TrimKeepsNewestOfTask ==
    [][\A uid \in Uids, task_id \in TrackerTasks :
          AddUid(uid, task_id) =>
              LET before == SelectSeq(UidsOf(processed_uids, task_id),
                                      LAMBDA u : u /= uid) \o <<uid>> IN
              /\ CountOf(processed_uids', task_id) <= max_size
              /\ UidsOf(processed_uids', task_id) = Newest(before, max_size)
              /\ OthersOf(processed_uids', uid, task_id)
                    = OthersOf(processed_uids, uid, task_id)]_vars

\* both tasks hold max_size records, each one's newest record newer than the
\* other's oldest
C39_Witness ==
    /\ \A task_id \in TrackerTasks : CountOf(processed_uids, task_id) = max_size
    /\ processed_uids[1].task_id /= processed_uids[2].task_id
    /\ processed_uids[1].task_id /= processed_uids[Len(processed_uids)].task_id
====
